---- MODULE Spec2Model ----
(***************************************************************************)
(* Model of the user reservation API of rrs-api                            *)
(* (src/reservation_system/user_api.py, class Reservation): the create     *)
(* (post), patch and slot-delete handlers, run by concurrent clients over  *)
(* one shared store.  The handlers are translated from user_api.py.  The   *)
(* storage module `db` they call is not among the source files: its        *)
(* operations are modelled from the specification's sections 3, 4 and 6.   *)
(***************************************************************************)
EXTENDS Integers, Sequences, FiniteSets, TLC

(***************************************************************************)
(* Bounds of the model.                                                    *)
(***************************************************************************)
NumProcs == 2        \* concurrent clients
MaxRequests == 2     \* requests started in one behaviour
MaxSlots == 2        \* longest time_slots list of a create request

(***************************************************************************)
(* db.UserRole, as numbered in the docstring of Reservation.post.          *)
(***************************************************************************)
BLOCKED == -1
RESTRICTED == 0
BASIC == 1
ADVANCED == 2
ADMIN == ADVANCED + 1
Roles == BLOCKED..ADMIN

(***************************************************************************)
(* db.ResvStatus.  NONE stands for "data['status'] not assigned yet".      *)
(***************************************************************************)
PENDING == "PENDING"
CONFIRMED == "CONFIRMED"
CANCELLED == "CANCELLED"
NONE == "NONE"
ActiveStatus == {PENDING, CONFIRMED}

(***************************************************************************)
(* mysql.connector errors: errno and msg.                                  *)
(***************************************************************************)
ER_DUP_ENTRY == "ER_DUP_ENTRY"
ER_OTHER == "ER_OTHER"
NoError == [errno |-> "OK", msg |-> "OK"]
ConflictDetail == "storage detail: overlapping time slot"
FaultDetail == "storage detail: query failed"
StorageDetails == {ConflictDetail, FaultDetail}
ConflictError == [errno |-> ER_DUP_ENTRY, msg |-> ConflictDetail]
FaultError == [errno |-> ER_OTHER, msg |-> FaultDetail]

(***************************************************************************)
(* The stored configuration the handlers read and never write: rooms,      *)
(* periods and settings.  A time is a point of one day's axis.             *)
(***************************************************************************)
Users == {"alice", "bob"}
Rooms == {"r1", "r2", "r3"}
AvailableRooms == {"r1", "r2"}
Periods == {<<0, 1>>, <<1, 2>>}
WindowStart == 1
WindowEnd == 3
TimeLimit == 1
MaxDaily == 1

(***************************************************************************)
(* Requests.  Auth supplies g.sub = {username, role}; request.json is a    *)
(* record whose field `keys` is the set of keys the JSON object holds.     *)
(***************************************************************************)
Subs ==
    {[username |-> "alice", role |-> r] : r \in Roles}
        \cup {[username |-> "bob", role |-> BASIC]}

SlotChoices == {<<1, 2>>, <<0, 1>>, <<0, 2>>, <<1, 3>>}
\* A create request's list: any slot, after up to MaxSlots - 1 bookings of
\* the period <<1, 2>>.
TimeSlotLists ==
    {ts \in UNION {[1..n -> SlotChoices] : n \in 0..MaxSlots} :
        \A i \in 1..(Len(ts) - 1) : ts[i] = <<1, 2>>}

PostRequired == {"room_id", "title", "time_slots"}
PostBodies ==
    {[keys |-> k, room_id |-> r, time_slots |-> ts] :
        k \in {PostRequired, PostRequired \cup {"session_id"}},
        r \in Rooms, ts \in TimeSlotLists}
    \cup {[keys |-> PostRequired \ {f}, room_id |-> "r1",
           time_slots |-> << <<1, 2>> >>] : f \in PostRequired}

ResvIds == 1..MaxRequests
SlotIds == 1..(MaxRequests * MaxSlots)

PatchKeys == {"title", "note", "status", "room_id"}
PatchValues(k) ==
    CASE k = "title" -> {"t1"}
      [] k = "note" -> {"n1"}
      [] k = "status" -> {CANCELLED, CONFIRMED}
      [] OTHER -> {"r2"}
PatchData ==
    UNION {{d \in [K -> {"t1", "n1", CANCELLED, CONFIRMED, "r2"}] :
                \A k \in K : d[k] \in PatchValues(k)} : K \in SUBSET PatchKeys}
PatchBodies ==
    {[keys |-> {"resv_id", "data"}, resv_id |-> r, data |-> d] :
        r \in ResvIds, d \in PatchData}
    \cup {[keys |-> {"resv_id", "data"} \ {f}, resv_id |-> 1,
           data |-> [title |-> "t1"]] : f \in {"resv_id", "data"}}

DeleteBodies ==
    {[keys |-> {"resv_id", "slot_id"}, resv_id |-> r, slot_id |-> s] :
        r \in ResvIds, s \in SlotIds}
    \cup {[keys |-> k, resv_id |-> 1, slot_id |-> 1] :
            k \in SUBSET {"resv_id", "slot_id", "room_id"}}

(***************************************************************************)
(* Storage predicates (module db, modelled from the specification).        *)
(***************************************************************************)
Range(s) == {s[i] : i \in DOMAIN s}

\* Spec 4.3: strict interval overlap; touching at a boundary is no overlap.
Overlap(a, b) == a[1] < b[2] /\ a[2] > b[1]

\* db.Room.available
available(room_id) == room_id \in AvailableRooms

\* db.Setting.in_time_window: every slot lies in the allowed window.
in_time_window(slots) ==
    \A i \in DOMAIN slots : WindowStart <= slots[i][1] /\ slots[i][2] <= WindowEnd

\* db.Setting.in_time_limit: every slot respects the configured span cap.
in_time_limit(slots) ==
    \A i \in DOMAIN slots : slots[i][2] - slots[i][1] <= TimeLimit

\* db.Setting.below_max_daily: the user's active reservations created today
\* (the model covers one day) are fewer than the cap.
below_max_daily(username, resvs) ==
    Cardinality({i \in DOMAIN resvs :
        resvs[i].username = username /\ resvs[i].status \in ActiveStatus}) < MaxDaily

\* A slot is a combination of periods iff it is covered exactly by whole,
\* contiguous periods: it starts and ends on period boundaries and every
\* unit of it lies in some period inside it.
SlotIsComb(s) ==
    /\ s[1] < s[2]
    /\ \E p \in Periods : p[1] = s[1]
    /\ \E p \in Periods : p[2] = s[2]
    /\ \A t \in s[1]..(s[2] - 1) :
          \E p \in Periods : p[1] <= t /\ t < p[2] /\ s[1] <= p[1] /\ p[2] <= s[2]

\* db.Period.is_comb_of_periods: false for the empty list.
is_comb_of_periods(slots) ==
    slots # <<>> /\ \A i \in DOMAIN slots : SlotIsComb(slots[i])

(***************************************************************************)
(* Storage writes (module db, modelled from the specification).  A write   *)
(* may fail for a reason of the store's own (connection, query, a check    *)
(* constraint): `fault` is that nondeterministic outcome.                  *)
(***************************************************************************)
ActiveSlots(resvs, slots, room_id) ==
    {s \in slots : resvs[s.resv_id].room_id = room_id
                   /\ resvs[s.resv_id].status \in ActiveStatus}

\* Mutant: only CONFIRMED reservations block a slot.
InsertConflict_ConfirmedOnly(d, resvs, slots) ==
    /\ d.status \in ActiveStatus
    /\ \E i \in DOMAIN d.time_slots : \E s \in slots :
          /\ resvs[s.resv_id].room_id = d.room_id
          /\ resvs[s.resv_id].status = CONFIRMED
          /\ Overlap(d.time_slots[i], <<s.start_time, s.end_time>>)

\* Spec 3 and 4.3: no slot of an active reservation may overlap another
\* active slot of the same room.
InsertConflict(d, resvs, slots) ==
    /\ d.status \in ActiveStatus
    /\ \/ \E i \in DOMAIN d.time_slots : \E s \in ActiveSlots(resvs, slots, d.room_id) :
             Overlap(d.time_slots[i], <<s.start_time, s.end_time>>)
       \/ \E i, j \in DOMAIN d.time_slots :
             i < j /\ Overlap(d.time_slots[i], d.time_slots[j])

\* db.Reservation.insert: the reservation row and its slot rows, atomically.
DbInsert(d, resvs, slots, fault) ==
    LET id == Len(resvs) + 1 IN
    IF fault THEN
        [err |-> FaultError, reservations |-> resvs, time_slots |-> slots, resv_id |-> 0]
    ELSE IF InsertConflict(d, resvs, slots) THEN
        [err |-> ConflictError, reservations |-> resvs, time_slots |-> slots, resv_id |-> 0]
    ELSE
        [err |-> NoError,
         reservations |-> Append(resvs,
             [username |-> d.username, room_id |-> d.room_id, status |-> d.status,
              title |-> "t0", note |-> "n0"]),
         time_slots |-> slots \cup
             {[slot_id |-> (id - 1) * MaxSlots + k, resv_id |-> id,
               start_time |-> d.time_slots[k][1], end_time |-> d.time_slots[k][2]] :
                 k \in DOMAIN d.time_slots},
         resv_id |-> id]

\* One row after UPDATE ... SET <the fields of d>.
UpdatedRow(row, d) ==
    [f \in DOMAIN row |-> IF f \in DOMAIN d THEN d[f] ELSE row[f]]

NoActiveOverlap(resvs, slots) ==
    \A s1, s2 \in slots :
        (/\ s1 # s2
         /\ resvs[s1.resv_id].room_id = resvs[s2.resv_id].room_id
         /\ resvs[s1.resv_id].status \in ActiveStatus
         /\ resvs[s2.resv_id].status \in ActiveStatus)
        => ~Overlap(<<s1.start_time, s1.end_time>>, <<s2.start_time, s2.end_time>>)

\* db.Reservation.update(resv_id, username, data): the rows with that id
\* AND that owner; no matching row is no error.  The store refuses an
\* update that would break the no-overlap constraint.
DbUpdate(resv_id, username, d, resvs, slots, fault) ==
    LET new == [i \in DOMAIN resvs |->
                  IF i = resv_id /\ resvs[i].username = username
                  THEN UpdatedRow(resvs[i], d) ELSE resvs[i]] IN
    IF fault \/ ~NoActiveOverlap(new, slots)
    THEN [err |-> FaultError, reservations |-> resvs]
    ELSE [err |-> NoError, reservations |-> new]

\* db.delete(TS_TABLE, where): the slot rows matching every field of
\* `where` (resv_id, slot_id, username); no matching row is no error.
DbDelete(where, resvs, slots, fault) ==
    IF fault THEN [err |-> FaultError, time_slots |-> slots]
    ELSE [err |-> NoError,
          time_slots |-> {s \in slots :
              ~(/\ s.resv_id = where.resv_id
                /\ s.slot_id = where.slot_id
                /\ resvs[s.resv_id].username = where.username)}]

(***************************************************************************)
(* util.abort(code, message=...) ends the request with that response.      *)
(* A message is the sequence of the parts it is formatted from.            *)
(***************************************************************************)
Response(code, message) == [code |-> code, message |-> message]

\* `role <= db.UserRole.BLOCKED`, the first test of post, patch and delete.
RoleDenied(role) == role <= BLOCKED

(***************************************************************************)
(* Reservation.post up to the insert.  The result is the abort response    *)
(* (code 0: no abort), data['status'] as assigned so far, and the storage  *)
(* calls and predicates evaluated on the way.                              *)
(***************************************************************************)
Outcome(code, message, status, evaluated) ==
    [code |-> code, message |-> message, status |-> status, evaluated |-> evaluated]

PostMissingFields(body) ==
    "room_id" \notin body.keys \/ "title" \notin body.keys \/ "time_slots" \notin body.keys

\* Mutant: the emptiness test dropped.
PostEmptySlots_Dropped(body) == FALSE

PostEmptySlots(body) == body.time_slots = <<>>

\* Mutant: ADVANCED itself left out.
PostIsAdvanced_Strict(role) == role > ADVANCED

PostIsAdvanced(role) == role >= ADVANCED

PostMissingSession(slot_num, body) == slot_num > 1 /\ "session_id" \notin body.keys

\* Mutant: the time window forgotten.
RestrictedDenied_NoWindow(slot_num, w, l) == slot_num > 1 \/ ~l

RestrictedDenied(slot_num, w, l) == slot_num > 1 \/ ~w \/ ~l

\* Mutant: the time limit forgotten.
BasicConfirmed_NoLimit(slot_num, w, l) == slot_num = 1 /\ w

BasicConfirmed(slot_num, w, l) == slot_num = 1 /\ w /\ l

\* The status decision.
PostStatus(sub, body) ==
    IF PostIsAdvanced(sub.role) THEN Outcome(0, <<>>, CONFIRMED, {})
    ELSE
        LET slot_num == Len(body.time_slots)
            w == in_time_window(body.time_slots)
            l == in_time_limit(body.time_slots)
            ev == {"in_time_window", "in_time_limit"}
        IN
        IF PostMissingSession(slot_num, body)
        THEN Outcome(400, <<"Missing session_id">>, PENDING, {})
        ELSE IF sub.role <= RESTRICTED THEN
            IF RestrictedDenied(slot_num, w, l)
            THEN Outcome(400, <<"Access denied">>, PENDING, ev)
            ELSE Outcome(0, <<>>, PENDING, ev)
        ELSE IF sub.role = BASIC /\ BasicConfirmed(slot_num, w, l)
            THEN Outcome(0, <<>>, CONFIRMED, ev)
            ELSE Outcome(0, <<>>, PENDING, ev)

\* Mutant: the period check left out.
PostConstraints_NoPeriods(sub, body, c, resvs) ==
    IF ~available(body.room_id)
    THEN Outcome(400, <<"Room not available">>, c.status,
                 c.evaluated \cup {"available"})
    ELSE IF ~below_max_daily(sub.username, resvs)
    THEN Outcome(400, <<"Reservation per day limit reached">>, c.status,
                 c.evaluated \cup {"available", "below_max_daily"})
    ELSE Outcome(0, <<>>, c.status,
                 c.evaluated \cup {"available", "below_max_daily"})

\* "Check other constraints".
PostConstraints(sub, body, c, resvs) ==
    IF ~available(body.room_id)
    THEN Outcome(400, <<"Room not available">>, c.status,
                 c.evaluated \cup {"available"})
    ELSE IF ~below_max_daily(sub.username, resvs)
    THEN Outcome(400, <<"Reservation per day limit reached">>, c.status,
                 c.evaluated \cup {"available", "below_max_daily"})
    ELSE IF ~is_comb_of_periods(body.time_slots)
    THEN Outcome(400, <<"Time_slots must be combination of periods">>, c.status,
                 c.evaluated \cup {"available", "below_max_daily", "is_comb_of_periods"})
    ELSE Outcome(0, <<>>, c.status,
                 c.evaluated \cup {"available", "below_max_daily", "is_comb_of_periods"})

PostCheck(sub, body, resvs) ==
    IF RoleDenied(sub.role) THEN Outcome(403, <<"Access denied">>, NONE, {})
    ELSE IF PostMissingFields(body)
    THEN Outcome(400, <<"Missing required fields">>, NONE, {})
    ELSE IF PostEmptySlots(body)
    THEN Outcome(400, <<"Time_slots cannot be empty">>, NONE, {})
    ELSE LET c == PostStatus(sub, body) IN
         IF c.code # 0 THEN c ELSE PostConstraints(sub, body, c, resvs)

\* The `data` passed to db.Reservation.insert.
PostData(sub, body, c) ==
    [username |-> sub.username, room_id |-> body.room_id, status |-> c.status,
     time_slots |-> body.time_slots]

\* Mutant: every storage error answered alike.
PostErrorResponse_NoConflict(err) == Response(500, <<"Database error: ", err.msg>>)

\* The except clause of the insert.
PostErrorResponse(err) ==
    IF err.errno = ER_DUP_ENTRY
    THEN Response(409, <<"Reservation already exists">>)
    ELSE Response(500, <<"Database error: ", err.msg>>)

\* The insert and the response after it.
PostInsertResponse(r) ==
    IF r.err = NoError
    THEN Response(201, <<"Reservation created successfully">>)
    ELSE PostErrorResponse(r.err)

(***************************************************************************)
(* Reservation.patch.                                                      *)
(***************************************************************************)
PatchMissingFields(body) == "resv_id" \notin body.keys \/ "data" \notin body.keys

\* Mutant: CONFIRMED let through beside CANCELLED.
PatchInvalidStatus_AllowsConfirm(d) ==
    "status" \in DOMAIN d /\ d["status"] \notin {CANCELLED, CONFIRMED}

PatchInvalidStatus(d) == "status" \in DOMAIN d /\ d["status"] # CANCELLED

\* Mutant: room_id let through.
PatchInvalidFields_AllowsRoom(d) ==
    (DOMAIN d) \ {"title", "note", "status", "room_id"} # {}

PatchInvalidFields(d) == (DOMAIN d) \ {"title", "note", "status"} # {}

\* The checks before the update (code 0: none aborted).
PatchCheck(sub, body) ==
    IF RoleDenied(sub.role) THEN Response(403, <<"Access denied">>)
    ELSE IF PatchMissingFields(body) THEN Response(400, <<"Missing required fields">>)
    ELSE IF PatchInvalidStatus(body.data) THEN Response(400, <<"Invalid status">>)
    ELSE IF PatchInvalidFields(body.data) THEN Response(400, <<"Invalid fields">>)
    ELSE Response(0, <<>>)

PatchErrorResponse(err) == Response(500, <<"Database error: ", err.msg>>)

\* The whole handler: its response and the reservations it leaves.
PatchResult(sub, body, resvs, slots, fault) ==
    LET c == PatchCheck(sub, body) IN
    IF c.code # 0 THEN [resp |-> c, reservations |-> resvs]
    ELSE LET r == DbUpdate(body.resv_id, sub.username, body.data, resvs, slots, fault) IN
         IF r.err = NoError
         THEN [resp |-> Response(200, <<"Reservation updated successfully">>),
               reservations |-> r.reservations]
         ELSE [resp |-> PatchErrorResponse(r.err), reservations |-> r.reservations]

(***************************************************************************)
(* Reservation.delete (one time slot).                                     *)
(***************************************************************************)
\* Mutant: a subset test in place of equality.
DeleteInvalidFields_Subset(body) == ~({"resv_id", "slot_id"} \subseteq body.keys)

DeleteInvalidFields(body) == body.keys # {"resv_id", "slot_id"}

DeleteCheck(sub, body) ==
    IF RoleDenied(sub.role) THEN Response(403, <<"Access denied">>)
    ELSE IF DeleteInvalidFields(body) THEN Response(400, <<"Invalid or missing fields">>)
    ELSE Response(0, <<>>)

DeleteErrorResponse(err) == Response(500, <<"Database error">>)

\* The whole handler: its response and the time slots it leaves.
DeleteResult(sub, body, resvs, slots, fault) ==
    LET c == DeleteCheck(sub, body) IN
    IF c.code # 0 THEN [resp |-> c, time_slots |-> slots]
    ELSE LET where == [resv_id |-> body.resv_id, slot_id |-> body.slot_id,
                       username |-> sub.username]
             r == DbDelete(where, resvs, slots, fault) IN
         IF r.err = NoError
         THEN [resp |-> Response(204, <<"Time slot deleted successfully">>),
               time_slots |-> r.time_slots]
         ELSE [resp |-> DeleteErrorResponse(r.err), time_slots |-> r.time_slots]

(***************************************************************************)
(* The state: the two tables; per client, the `data` of the create request *)
(* it has in flight between its pre-checks and its insert; and `last`, the *)
(* handler step taken last: who took it, the request, what the handler     *)
(* assigned and evaluated, whether the store failed, and the response      *)
(* (code 0: none yet, the create request goes on to its insert).           *)
(***************************************************************************)
VARIABLES reservations, time_slots, pc, data, last, nreq

vars == <<reservations, time_slots, pc, data, last, nreq>>

Procs == 1..NumProcs
NoSub == [username |-> "none", role |-> BLOCKED]
NoBody == [keys |-> {}]
NoData == [username |-> "none", room_id |-> "none", status |-> NONE, time_slots |-> <<>>]
Step(p, op, sub, body, d, evaluated, fault, r, resv_id) ==
    [proc |-> p, op |-> op, sub |-> sub, body |-> body, data |-> d,
     evaluated |-> evaluated, fault |-> fault,
     code |-> r.code, message |-> r.message, resv_id |-> resv_id]

Init ==
    /\ reservations = <<>>
    /\ time_slots = {}
    /\ pc = [p \in Procs |-> "idle"]
    /\ data = [p \in Procs |-> NoData]
    /\ last = Step(0, "none", NoSub, NoBody, NoData, {}, FALSE, Response(0, <<>>), 0)
    /\ nreq = 0

\* A create request up to the insert: rejected, or left waiting to insert.
PostBegin(p) ==
    /\ pc[p] = "idle"
    /\ nreq < MaxRequests
    /\ \E sub \in Subs, body \in PostBodies :
          LET c == PostCheck(sub, body, reservations)
              d == PostData(sub, body, c) IN
          /\ last' = Step(p, "post", sub, body, d, c.evaluated, FALSE, c, 0)
          /\ IF c.code # 0
             THEN UNCHANGED <<pc, data>>
             ELSE /\ pc' = [pc EXCEPT ![p] = "insert"]
                  /\ data' = [data EXCEPT ![p] = d]
    /\ nreq' = nreq + 1
    /\ UNCHANGED <<reservations, time_slots>>

\* The insert of a create request and its response.
PostInsert(p) ==
    /\ pc[p] = "insert"
    /\ \E fault \in BOOLEAN :
          LET r == DbInsert(data[p], reservations, time_slots, fault) IN
          /\ reservations' = r.reservations
          /\ time_slots' = r.time_slots
          /\ last' = Step(p, "insert", NoSub, NoBody, data[p], {"insert"}, fault,
                          PostInsertResponse(r), r.resv_id)
    /\ pc' = [pc EXCEPT ![p] = "idle"]
    /\ data' = [data EXCEPT ![p] = NoData]
    /\ UNCHANGED nreq

\* A patch request: one storage call.
Patch(p) ==
    /\ pc[p] = "idle"
    /\ nreq < MaxRequests
    /\ \E sub \in Subs, body \in PatchBodies, fault \in BOOLEAN :
          LET r == PatchResult(sub, body, reservations, time_slots, fault) IN
          /\ reservations' = r.reservations
          /\ last' = Step(p, "patch", sub, body, NoData, {},
                          fault /\ PatchCheck(sub, body).code = 0, r.resp, 0)
    /\ nreq' = nreq + 1
    /\ UNCHANGED <<time_slots, pc, data>>

\* A slot-delete request: one storage call.
Delete(p) ==
    /\ pc[p] = "idle"
    /\ nreq < MaxRequests
    /\ \E sub \in Subs, body \in DeleteBodies, fault \in BOOLEAN :
          LET r == DeleteResult(sub, body, reservations, time_slots, fault) IN
          /\ time_slots' = r.time_slots
          /\ last' = Step(p, "delete", sub, body, NoData, {},
                          fault /\ DeleteCheck(sub, body).code = 0, r.resp, 0)
    /\ nreq' = nreq + 1
    /\ UNCHANGED <<reservations, pc, data>>

Next ==
    \E p \in Procs :
        \/ PostBegin(p)
        \/ PostInsert(p)
        \/ Patch(p)
        \/ Delete(p)

Spec == Init /\ [][Next]_vars

(***************************************************************************)
(* Vocabulary of the properties.                                           *)
(***************************************************************************)
ClientError == 400..499
ServerError == 500..599

\* The step just taken received a request of kind op (a create request's
\* insert is a later step of its own, op "insert").
Received(op) == nreq' = nreq + 1 /\ last'.op = op

StoreUnchanged == reservations' = reservations /\ time_slots' = time_slots

\* The create request in `last` reaches the status decision: its required
\* fields are present and its time_slots list is not empty.
Decided ==
    /\ last.op = "post"
    /\ PostRequired \subseteq last.body.keys
    /\ Len(last.body.time_slots) >= 1

LastSlotNum == Len(last.body.time_slots)
LastInWindow == in_time_window(last.body.time_slots)
LastInLimit == in_time_limit(last.body.time_slots)

\* The decision table of the docstring of Reservation.post, rows RESTRICTED
\* and BASIC.
TableStatus(role, n, w, l) ==
    IF role = RESTRICTED
    THEN (IF n = 1 /\ w /\ l THEN PENDING ELSE "FORBIDDEN")
    ELSE (IF n = 1 /\ w /\ l THEN CONFIRMED ELSE PENDING)

SelfOverlap(ts) == \E i, j \in DOMAIN ts : i < j /\ Overlap(ts[i], ts[j])

ListsOverlap(ts1, ts2) ==
    \E i \in DOMAIN ts1, j \in DOMAIN ts2 : Overlap(ts1[i], ts2[j])

\* The stored active slots of room d.room_id, of reservations other than
\* `own`, that overlap a slot of d.
Rivals(d, own) ==
    {s \in time_slots :
        /\ s.resv_id # own
        /\ reservations[s.resv_id].room_id = d.room_id
        /\ reservations[s.resv_id].status \in ActiveStatus
        /\ \E i \in DOMAIN d.time_slots :
              Overlap(d.time_slots[i], <<s.start_time, s.end_time>>)}

(***************************************************************************)
(* C1.  For every create request by a RESTRICTED or BASIC caller that      *)
(* reaches the status decision (slot_count >= 1), whatever in_time_window  *)
(* and in_time_limit return: a RESTRICTED caller's request is assigned     *)
(* PENDING when slot_count = 1 and both predicates hold and is otherwise   *)
(* rejected with a client error, never going on to the insert; a BASIC     *)
(* caller's request is assigned CONFIRMED when slot_count = 1 and both     *)
(* predicates hold and PENDING otherwise, and is never denied access.      *)
(***************************************************************************)
C1_StatusMatchesTable ==
    (Decided /\ last.sub.role \in {RESTRICTED, BASIC}) =>
        LET t == TableStatus(last.sub.role, LastSlotNum, LastInWindow, LastInLimit) IN
        IF t = "FORBIDDEN"
        THEN last.code \in ClientError /\ pc[last.proc] # "insert"
        ELSE last.data.status = t /\ last.message # <<"Access denied">>

C1_Witness ==
    /\ Decided
    /\ last.sub.role = BASIC
    /\ LastSlotNum = 1 /\ ~LastInWindow /\ LastInLimit
    /\ last.data.status = PENDING
    /\ last.code = 0
    /\ pc[last.proc] = "insert"

(***************************************************************************)
(* C2.  For every create request by a caller of role ADVANCED or higher    *)
(* that reaches the status decision, the status assigned is CONFIRMED      *)
(* whatever the slot count, the time window and the time limit, and        *)
(* neither in_time_window nor in_time_limit is evaluated.                  *)
(***************************************************************************)
C2_AdvancedConfirmed ==
    (Decided /\ last.sub.role >= ADVANCED) =>
        /\ last.data.status = CONFIRMED
        /\ last.evaluated \cap {"in_time_window", "in_time_limit"} = {}
        /\ last.message \notin {<<"Access denied">>, <<"Missing session_id">>}

C2_Witness ==
    /\ Decided
    /\ last.sub.role = ADVANCED
    /\ LastSlotNum > 1 /\ ~LastInWindow /\ ~LastInLimit
    /\ "session_id" \notin last.body.keys
    /\ last.data.status = CONFIRMED
    /\ last.code = 0
    /\ "available" \in last.evaluated

C4_NoActiveOverlap ==
    \A a, b \in time_slots :
        (/\ a # b
         /\ reservations[a.resv_id].room_id = reservations[b.resv_id].room_id
         /\ reservations[a.resv_id].status \in {PENDING, CONFIRMED}
         /\ reservations[b.resv_id].status \in {PENDING, CONFIRMED})
        => ~(a.start_time < b.end_time /\ a.end_time > b.start_time)

\* Two active reservations of one room whose slots touch at a boundary.
C4_Witness ==
    \E a, b \in time_slots :
        /\ a.resv_id # b.resv_id
        /\ reservations[a.resv_id].room_id = reservations[b.resv_id].room_id
        /\ reservations[a.resv_id].status \in {PENDING, CONFIRMED}
        /\ reservations[b.resv_id].status \in {PENDING, CONFIRMED}
        /\ a.end_time = b.start_time

(***************************************************************************)
(* C5.  Every create request the decision table classifies FORBIDDEN (any  *)
(* request by a BLOCKED caller; a RESTRICTED caller's with more than one   *)
(* slot, or slots outside the time window, or outside the time limit) is   *)
(* answered with a client error, writes no reservation row and no          *)
(* time-slot row, and never goes on to the insert.                         *)
(***************************************************************************)
Forbidden(sub, body) ==
    \/ sub.role = BLOCKED
    \/ /\ sub.role = RESTRICTED
       /\ \/ Len(body.time_slots) > 1
          \/ ~in_time_window(body.time_slots)
          \/ ~in_time_limit(body.time_slots)

C5_ForbiddenNeverPersists ==
    [][(Received("post") /\ Forbidden(last'.sub, last'.body)) =>
          /\ last'.code \in ClientError
          /\ StoreUnchanged
          /\ pc' = pc /\ data' = data]_vars

C5_Witness ==
    /\ last.op = "post"
    /\ last.sub.role = RESTRICTED
    /\ PostRequired \subseteq last.body.keys
    /\ Len(last.body.time_slots) = 1
    /\ ~in_time_window(last.body.time_slots)
    /\ available(last.body.room_id)
    /\ is_comb_of_periods(last.body.time_slots)
    /\ last.code = 400
    /\ pc[last.proc] = "idle"

(***************************************************************************)
(* C6.  As claimed: a create request whose time_slots list is empty fails  *)
(* with a validation error, for every caller role.                         *)
(***************************************************************************)
EmptySlots == last.op = "post" /\ "time_slots" \in last.body.keys
              /\ last.body.time_slots = <<>>

ValidationMessages == {<<"Missing required fields">>, <<"Time_slots cannot be empty">>}

C6_AsClaimed ==
    EmptySlots => last.code = 400 /\ last.message \in ValidationMessages

(***************************************************************************)
(* C6, amended.  A create request whose time_slots list is empty fails     *)
(* before any storage call (room availability, daily quota, period lookup, *)
(* insert) and before the time-window and time-limit predicates or the     *)
(* status decision are evaluated: with a validation error (400) for every  *)
(* caller role above BLOCKED, and with the authorization error 403 for a   *)
(* BLOCKED caller.                                                         *)
(***************************************************************************)
C6_EmptySlotsFailFirst ==
    EmptySlots =>
        /\ last.evaluated = {}
        /\ last.data.status = NONE
        /\ pc[last.proc] # "insert"
        /\ IF last.sub.role <= BLOCKED
           THEN last.code = 403
           ELSE last.code = 400 /\ last.message \in ValidationMessages

C6_Witness ==
    /\ EmptySlots
    /\ last.sub.role = ADMIN
    /\ PostRequired \subseteq last.body.keys
    /\ last.code = 400
    /\ last.message = <<"Time_slots cannot be empty">>

(***************************************************************************)
(* C7.  A patch request is accepted only if the keys of its data are a     *)
(* subset of {title, note, status} and its status, when present, equals    *)
(* CANCELLED; every other patch request is rejected with a client error,   *)
(* whatever the caller's role, and leaves the store unchanged.             *)
(***************************************************************************)
PatchAcceptable(body) ==
    /\ {"resv_id", "data"} \subseteq body.keys
    /\ (DOMAIN body.data) \subseteq {"title", "note", "status"}
    /\ ("status" \in DOMAIN body.data => body.data["status"] = CANCELLED)

C7_PatchAcceptedOnlyIfValid ==
    [][Received("patch") =>
          /\ (last'.code \notin ClientError => PatchAcceptable(last'.body))
          /\ (~PatchAcceptable(last'.body) =>
                last'.code \in ClientError /\ StoreUnchanged)]_vars

\* The owner of a stored reservation, of the highest role, asks to confirm
\* it and is refused.
C7_Witness ==
    /\ last.op = "patch"
    /\ last.sub.role = ADMIN
    /\ {"resv_id", "data"} \subseteq last.body.keys
    /\ DOMAIN last.body.data = {"status"}
    /\ last.body.data["status"] = CONFIRMED
    /\ last.body.resv_id \in DOMAIN reservations
    /\ reservations[last.body.resv_id].username = last.sub.username
    /\ last.code = 400
    /\ last.message = <<"Invalid status">>

(***************************************************************************)
(* C8.  As claimed: a valid patch or slot-delete request whose resv_id     *)
(* names a reservation the caller does not own is answered with an         *)
(* authorization client error (401 or 403), not with success, and changes  *)
(* neither the reservation nor its time slots.                             *)
(***************************************************************************)
NamesForeignReservation(step) ==
    /\ "resv_id" \in step.body.keys
    /\ step.body.resv_id \in DOMAIN reservations
    /\ reservations[step.body.resv_id].username # step.sub.username

C8_AsClaimed ==
    [][(/\ Received("patch") \/ Received("delete")
        /\ ~last'.fault
        /\ last'.code \notin {400}
        /\ NamesForeignReservation(last')) =>
          last'.code \in {401, 403} /\ StoreUnchanged]_vars

(***************************************************************************)
(* C9.  As claimed: when a storage call of create, patch or slot-delete    *)
(* fails with an error that is not a known conflict code, the response is  *)
(* a server error whose message carries none of the storage layer's own    *)
(* error detail.                                                           *)
(***************************************************************************)
C9_AsClaimed ==
    last.fault =>
        /\ last.code \in ServerError
        /\ Range(last.message) \cap StorageDetails = {}

(***************************************************************************)
(* C10.  A slot-delete request is accepted only when the set of keys of    *)
(* its body is exactly {resv_id, slot_id}; a body with a key missing or an *)
(* extra key is rejected with a client error and deletes no time slot.     *)
(***************************************************************************)
C10_DeleteNeedsExactKeys ==
    [][Received("delete") =>
          /\ (last'.code \notin ClientError => last'.body.keys = {"resv_id", "slot_id"})
          /\ (last'.body.keys # {"resv_id", "slot_id"} =>
                last'.code \in ClientError /\ StoreUnchanged)]_vars

\* The owner names a slot of theirs that is stored, with one key too many.
C10_Witness ==
    /\ last.op = "delete"
    /\ last.sub.role > BLOCKED
    /\ last.body.keys = {"resv_id", "slot_id", "room_id"}
    /\ \E s \in time_slots :
          /\ s.resv_id = last.body.resv_id
          /\ s.slot_id = last.body.slot_id
          /\ reservations[s.resv_id].username = last.sub.username
    /\ last.code = 400

(***************************************************************************)
(* C11.  A create request that is not classified FORBIDDEN and whose room  *)
(* is not available, or whose caller is not below the daily cap, or whose  *)
(* time slots are not a combination of whole periods, is answered with a   *)
(* client error and leaves the stored reservations and time slots exactly  *)
(* as they were; a create request goes on to the insert only when all      *)
(* three checks pass.                                                      *)
(***************************************************************************)
ConstraintsPass(sub, body) ==
    /\ available(body.room_id)
    /\ below_max_daily(sub.username, reservations)
    /\ is_comb_of_periods(body.time_slots)

C11_FailedCheckWritesNothing ==
    [][Received("post") =>
          /\ (/\ PostRequired \subseteq last'.body.keys
              /\ Len(last'.body.time_slots) >= 1
              /\ ~Forbidden(last'.sub, last'.body)
              /\ ~ConstraintsPass(last'.sub, last'.body)) =>
                /\ last'.code \in ClientError
                /\ StoreUnchanged
                /\ pc' = pc /\ data' = data
          /\ pc'[last'.proc] = "insert" => ConstraintsPass(last'.sub, last'.body)]_vars

\* A caller who already holds an active reservation asks for a free period
\* of an available room and is stopped by the daily cap, the store not empty.
C11_Witness ==
    /\ last.op = "post"
    /\ last.sub.role = ADVANCED
    /\ PostRequired \subseteq last.body.keys
    /\ available(last.body.room_id)
    /\ is_comb_of_periods(last.body.time_slots)
    /\ ~below_max_daily(last.sub.username, reservations)
    /\ Rivals(last.data, 0) = {}
    /\ time_slots # {}
    /\ last.code = 400
    /\ last.message = <<"Reservation per day limit reached">>
    /\ pc[last.proc] = "idle"

(***************************************************************************)
(* A store that already holds one booking, as a successful create by       *)
(* alice leaves it: reservation 1 of room r1 with its slot <<1, 2>>,       *)
(* PENDING or CONFIRMED.  The requests of a behaviour come after it.       *)
(***************************************************************************)
InitBooked ==
    /\ \E st \in ActiveStatus :
          LET r == DbInsert([username |-> "alice", room_id |-> "r1", status |-> st,
                             time_slots |-> << <<1, 2>> >>], <<>>, {}, FALSE) IN
          /\ reservations = r.reservations
          /\ time_slots = r.time_slots
    /\ pc = [p \in Procs |-> "idle"]
    /\ data = [p \in Procs |-> NoData]
    /\ last = Step(0, "none", NoSub, NoBody, NoData, {}, FALSE, Response(0, <<>>), 0)
    /\ nreq = 0

SpecBooked == InitBooked /\ [][Next]_vars

(***************************************************************************)
(* C12.  Cancellation through patch is one-way: over any sequence of user  *)
(* create, patch and slot-delete requests no stored reservation is ever    *)
(* removed, the only step that changes a reservation's status is a patch   *)
(* and the only status it changes it to is CANCELLED, and a reservation    *)
(* that has status CANCELLED keeps it in every later state.                *)
(***************************************************************************)
C12_CancelOneWay ==
    [][\A i \in DOMAIN reservations :
          /\ i \in DOMAIN reservations'
          /\ reservations'[i].status # reservations[i].status =>
                last'.op = "patch" /\ reservations'[i].status = CANCELLED
          /\ reservations[i].status = CANCELLED =>
                reservations'[i].status = CANCELLED]_vars

\* The owner cancelled reservation 1 earlier and has now edited its title:
\* the patch is accepted and the reservation is still CANCELLED.
C12_Witness ==
    /\ last.op = "patch"
    /\ last.code = 200
    /\ last.body.resv_id = 1
    /\ DOMAIN last.body.data = {"title"}
    /\ last.sub.username = reservations[1].username
    /\ reservations[1].title = last.body.data["title"]
    /\ reservations[1].status = CANCELLED

(***************************************************************************)
(* C13.  As claimed: the per-user daily cap holds under concurrency.  For  *)
(* any interleaving of create requests by one user, each doing the         *)
(* below_max_daily check and then the insert as separate steps, the number *)
(* of that user's active (PENDING or CONFIRMED) reservations created on    *)
(* one day never exceeds the configured cap.                               *)
(***************************************************************************)
ActiveToday(username) ==
    {i \in DOMAIN reservations :
        reservations[i].username = username /\ reservations[i].status \in ActiveStatus}

C13_AsClaimed ==
    \A u \in Users : Cardinality(ActiveToday(u)) <= MaxDaily

====
